---- MODULE Spec2Model ----
(***************************************************************************)
(* TaskMeshOrchestrator (src/connectors/task_mesh_orchestrator.py): the    *)
(* registry of tasks, the per-phase topological grouping into waves, and   *)
(* execute(), which runs the waves one after the other, each wave under an *)
(* asyncio.Semaphore(max_parallel_tasks) and an asyncio.gather barrier.    *)
(*                                                                         *)
(* Task ids are the numbers 1..MaxTasks; the k-th distinct id registered   *)
(* is k (ids are opaque names in the source, nothing orders or hashes them *)
(* by value, so this loses no behaviour).  A task's dependencies are a set *)
(* of ids: the source keeps a list, but every use of it is a membership    *)
(* test or a count that a repeated entry raises and lowers alike.          *)
(***************************************************************************)
EXTENDS Integers, Sequences, FiniteSets, TLC

\* ---- bounds of the model ----
MaxTasks == 3
MaxEdges == 3
NumPhases == 2
MaxParallel == 2

\* ImplementationTaskMesh: the tasks created and the dependencies of one task
MaxMeshTasks == 3
MaxMeshDeps == 1
MeshIds == 1..MaxMeshTasks
MeshDepSets == {d \in SUBSET MeshIds : Cardinality(d) <= MaxMeshDeps}

\* the number of calls of execute() on one orchestrator, and the tasks of the
\* registries on which execute() is called more than once
MaxRuns == 2
MaxAgainTasks == 2
AgainIds == 1..MaxAgainTasks
TaskIds == 1..MaxTasks

\* the wider registries: more tasks, dependencies on tasks registered before
MaxWideTasks == 5
MaxWideEdges == 4
WideIds == 1..MaxWideTasks
\* how many of them are in the first phase: all, all but the last, or all but
\* the last two
WideSplits == {MaxWideTasks - 2, MaxWideTasks - 1, MaxWideTasks}

\* TaskPhase, in the declaration order of the enum (what "for phase in TaskPhase" iterates)
TaskPhase == 1..NumPhases

VARIABLES
    pc,                 \* position of the control flow: construction, execute(), its waves
    max_parallel_tasks, \* self.max_parallel_tasks
    task_keys,          \* key order of the dict state.tasks (insertion order)
    tasks,              \* state.tasks: id -> Task
    completed_tasks,    \* state.completed_tasks
    failed_tasks,       \* state.failed_tasks
    running_tasks,      \* state.running_tasks
    execution_order,    \* state.execution_order: list of waves, each a list of ids
    group_idx,          \* index (from 1) of the wave the loop of execute() is at
    bounded_tasks,      \* coroutines handed to asyncio.gather that have not finished
    waiting,            \* those of them that have not acquired the semaphore yet, in order
    semaphore,          \* value of the asyncio.Semaphore of the current wave
    history,            \* mcp_context.history: the notifications sent, <<method, task id>>
    summary,            \* the dict execute() returns, <<>> until it has returned
    overlapping,        \* the calls of execute() made while an earlier one is suspended
    \* ImplementationTaskMesh (max_parallel_tasks above is also its field)
    mesh_tasks,         \* self.tasks: id -> Task of implementation_task_mesh
    creating,           \* the dependencies of the create_task calls that are suspended
    executing_tasks,    \* self.executing_tasks
    calls,              \* per id, where the execute_task call for it stands
    evolution_lock,     \* the id whose call holds self.evolution_lock, 0 when free
    lock_waiters,       \* the futures of the calls that wait for the lock, in order of arrival
    returned,           \* the last value returned by assign_task or execute_task
    assigned,           \* per id, how many assign_task calls returned True
    passed,             \* per id, how many execute_task calls passed the ASSIGNED check
    invoked             \* per id, how many times execute_implementation was invoked

\* the state of the TaskMeshOrchestrator, max_parallel_tasks apart
orchvars == <<pc, task_keys, tasks, completed_tasks, failed_tasks, running_tasks,
              execution_order, group_idx, bounded_tasks, waiting, semaphore, history,
              summary, overlapping>>

\* the state of the ImplementationTaskMesh, max_parallel_tasks apart
meshvars == <<mesh_tasks, creating, executing_tasks, calls, evolution_lock, lock_waiters,
              returned, assigned, passed, invoked>>

vars == <<max_parallel_tasks, orchvars, meshvars>>

Range(s) == {s[i] : i \in DOMAIN s}

\* ---- Task ----
\* dataclass Task with its defaults; started_at / completed_at hold 0 for None
\* and otherwise the number of times datetime.now() has been stored in them.
NewTask(ph, deps) ==
    [phase |-> ph, dependencies |-> deps, status |-> "PENDING",
     result |-> "None", error |-> "None", started_at |-> 0, completed_at |-> 0]

\* number of dependency entries in a registry (bounds the inputs)
EdgeCount(reg) ==
    Cardinality(UNION {{<<t, d>> : d \in reg[t].dependencies} : t \in DOMAIN reg})

\* self.state.tasks[task.id] = task : stores under the key, a key already
\* present keeps its place in the dict order and gets the new value.
PutTask(reg, id, task) ==
    [k \in (DOMAIN reg) \cup {id} |-> IF k = id THEN task ELSE reg[k]]

PutKey(keys, id) ==
    IF id \in Range(keys) THEN keys ELSE Append(keys, id)

\* ---- _topological_sort ----
\* in_degree set to 1 for a task that has dependencies, instead of counted
InDegreeFlag(task_ids, reg) ==
    [t \in Range(task_ids) |->
        IF \E d \in reg[t].dependencies : d \in Range(task_ids) THEN 1 ELSE 0]

\* in_degree[task_id]: the dependencies of the task that are in task_ids
InDegree(task_ids, reg) ==
    [t \in Range(task_ids) |->
        Cardinality({d \in reg[t].dependencies : d \in Range(task_ids)})]

\* adj_list[dep]: the tasks of task_ids that list dep, in the order of task_ids
AdjList(task_ids, reg) ==
    [d \in Range(task_ids) |->
        SelectSeq(task_ids, LAMBDA t : d \in reg[t].dependencies)]

\* the test on in_degree made before the decrement: a dependent is never queued
RECURSIVE ProcessNeighborsTestFirst(_, _)
ProcessNeighborsTestFirst(nbrs, acc) ==
    IF nbrs = <<>> THEN acc
    ELSE LET n == Head(nbrs)
             deg == [acc.in_degree EXCEPT ![n] = @ - 1]
         IN ProcessNeighborsTestFirst(Tail(nbrs),
                [in_degree |-> deg,
                 queue |-> IF acc.in_degree[n] = 0 THEN Append(acc.queue, n)
                           ELSE acc.queue])

\* for neighbor in adj_list[task_id]: in_degree[neighbor] -= 1; queue on reaching 0
RECURSIVE ProcessNeighbors(_, _)
ProcessNeighbors(nbrs, acc) ==
    IF nbrs = <<>> THEN acc
    ELSE LET n == Head(nbrs)
             deg == [acc.in_degree EXCEPT ![n] = @ - 1]
         IN ProcessNeighbors(Tail(nbrs),
                [in_degree |-> deg,
                 queue |-> IF deg[n] = 0 THEN Append(acc.queue, n) ELSE acc.queue])

\* for task_id in current_group: ...
RECURSIVE ProcessGroup(_, _, _)
ProcessGroup(group, adj, acc) ==
    IF group = <<>> THEN acc
    ELSE ProcessGroup(Tail(group), adj, ProcessNeighbors(adj[Head(group)], acc))

\* while queue: groups.append(queue[:]); queue = []; process the group
RECURSIVE KahnLoop(_, _, _, _)
KahnLoop(queue, deg, adj, groups) ==
    IF queue = <<>> THEN groups
    ELSE LET acc == ProcessGroup(queue, adj, [in_degree |-> deg, queue |-> <<>>])
         IN KahnLoop(acc.queue, acc.in_degree, adj, Append(groups, queue))

TopologicalSort(task_ids, reg) ==
    LET deg == InDegree(task_ids, reg)
    IN KahnLoop(SelectSeq(task_ids, LAMBDA t : deg[t] = 0), deg,
                AdjList(task_ids, reg), <<>>)

\* ---- _calculate_execution_order ----
\* phases[phase]: the ids of the phase, in dict order
PhaseTasks(keys, reg, ph) == SelectSeq(keys, LAMBDA t : reg[t].phase = ph)

RECURSIVE ExtendByPhase(_, _, _, _)
ExtendByPhase(ph, keys, reg, order) ==
    IF ph > NumPhases THEN order
    ELSE ExtendByPhase(ph + 1, keys, reg,
            IF PhaseTasks(keys, reg, ph) = <<>> THEN order
            ELSE order \o TopologicalSort(PhaseTasks(keys, reg, ph), reg))

CalculateExecutionOrder(keys, reg, order) == ExtendByPhase(1, keys, reg, order)

\* ImplementationTaskMesh.__init__: no task, nothing executing, the lock free
MeshInitial ==
    /\ mesh_tasks = <<>>
    /\ creating = <<>>
    /\ executing_tasks = {}
    /\ calls = <<>>
    /\ evolution_lock = 0
    /\ lock_waiters = <<>>
    /\ returned = [op |-> "none", id |-> 0, value |-> FALSE]
    /\ assigned = <<>>
    /\ passed = <<>>
    /\ invoked = <<>>

\* ---- construction ----
Init ==
    /\ pc = "init"
    /\ max_parallel_tasks \in 1..MaxParallel
    /\ task_keys = <<>>
    /\ tasks = <<>>
    /\ completed_tasks = {}
    /\ failed_tasks = {}
    /\ running_tasks = {}
    /\ execution_order = <<>>
    /\ group_idx = 0
    /\ bounded_tasks = {}
    /\ waiting = <<>>
    /\ semaphore = 0
    /\ history = <<>>
    /\ summary = <<>>
    /\ overlapping = <<>>
    /\ MeshInitial

\* _add_task, called from _initialize_tasks
AddTask(id, ph, deps) ==
    /\ pc = "init"
    /\ id <= Len(task_keys) + 1
    /\ EdgeCount(PutTask(tasks, id, NewTask(ph, deps))) <= MaxEdges
    /\ tasks' = PutTask(tasks, id, NewTask(ph, deps))
    /\ task_keys' = PutKey(task_keys, id)
    /\ UNCHANGED <<pc, max_parallel_tasks, completed_tasks, failed_tasks, running_tasks,
                   execution_order, group_idx, bounded_tasks, waiting, semaphore,
                   history, summary>>
    /\ UNCHANGED <<overlapping, meshvars>>

\* the last statement of _initialize_tasks: self._calculate_execution_order()
Resolve ==
    /\ pc = "init"
    /\ execution_order' = CalculateExecutionOrder(task_keys, tasks, execution_order)
    /\ pc' = "constructed"
    /\ UNCHANGED <<max_parallel_tasks, task_keys, tasks, completed_tasks, failed_tasks,
                   running_tasks, group_idx, bounded_tasks, waiting, semaphore,
                   history, summary>>
    /\ UNCHANGED <<overlapping, meshvars>>

\* ---- the semaphore and the gather of _execute_parallel_group ----
\* "async with semaphore": the next waiter is admitted only while the value is positive
CanAcquire(value) == value > 0

\* a permit that is never given back
ReleaseSemaphoreLeak(value) == value

\* leaving "async with semaphore" gives the permit back
ReleaseSemaphore(value) == value + 1

\* the coroutine of task t has finished: it is no longer awaited by the gather
AfterOutcome(pending, t) == pending \ {t}

\* "await asyncio.gather(*bounded_tasks, return_exceptions=True)" returns once
\* every coroutine handed to it has finished
GatherDone(pending) == pending = {}

\* a test that looks at failed_tasks and not at the dependencies of the task
DependencyFailedAny(task, failed) == failed # {}

\* any(dep in self.state.failed_tasks for dep in task.dependencies)
DependencyFailed(task, failed) == task.dependencies \cap failed # {}

\* a check that forgets the test on PENDING and blocks whatever depends on a failure
GetBlockedTasksAnyStatus(reg, failed) ==
    {t \in DOMAIN reg : DependencyFailed(reg[t], failed)}

\* ---- _get_blocked_tasks ----
GetBlockedTasks(reg, failed) ==
    {t \in DOMAIN reg : reg[t].status = "PENDING" /\ DependencyFailed(reg[t], failed)}

\* ---- _get_completed_phases ----
\* the keys of phase_tasks in the order the dict received them: the phase of the
\* first task, then each phase not seen before
RECURSIVE PhasesSeen(_, _, _)
PhasesSeen(keys, reg, seen) ==
    IF keys = <<>> THEN seen
    ELSE PhasesSeen(Tail(keys), reg,
            IF reg[Head(keys)].phase \in Range(seen) THEN seen
            ELSE Append(seen, reg[Head(keys)].phase))

\* any() where the code has all(): a phase with one completed task counts
GetCompletedPhasesAny(keys, reg) ==
    SelectSeq(PhasesSeen(keys, reg, <<>>),
              LAMBDA ph : \E t \in DOMAIN reg :
                            reg[t].phase = ph /\ reg[t].status = "COMPLETED")

GetCompletedPhases(keys, reg) ==
    SelectSeq(PhasesSeen(keys, reg, <<>>),
              LAMBDA ph : \A t \in DOMAIN reg :
                            reg[t].phase = ph => reg[t].status = "COMPLETED")

\* the summary dict of execute() (duration_seconds left out: wall-clock time)
Summary(keys, reg, completed, failed) ==
    [total_tasks |-> Cardinality(DOMAIN reg),
     completed |-> Cardinality(completed),
     failed |-> Cardinality(failed),
     blocked |-> Cardinality({t \in DOMAIN reg : reg[t].status = "BLOCKED"}),
     phases_completed |-> GetCompletedPhases(keys, reg)]

\* ---- the outcome of _execute_task ----
\* what "await task.handler(task)" gives back: a value ("result" stands for
\* every value other than None; the branch without handler stores a string) or None
HandlerValues == {"result", "None"}

\* ---- mcp_protocol.send_notification ----
\* the message is appended to context.history (task_id is 0 for the events of
\* the whole run)
SendNotification(hist, method, task_id) == Append(hist, <<method, task_id>>)

\* a start that does not record started_at
MarkRunningNoStamp(task) == [task EXCEPT !.status = "RUNNING"]

\* the head of _execute_task: status RUNNING, started_at = now
MarkRunning(task) == [task EXCEPT !.status = "RUNNING", !.started_at = @ + 1]

\* a completion that does not store what the handler returned
MarkCompletedNoResult(task, value) ==
    [task EXCEPT !.status = "COMPLETED", !.completed_at = @ + 1]

\* the handler returned value: task.result = result, status COMPLETED, completed_at
MarkCompleted(task, value) ==
    [task EXCEPT !.result = value, !.status = "COMPLETED", !.completed_at = @ + 1]

\* the except block: status FAILED, error = str(e), completed_at
MarkFailed(task) ==
    [task EXCEPT !.status = "FAILED", !.error = "error", !.completed_at = @ + 1]

\* ---- execute() ----
\* execute() up to the head of the loop over execution_order
BeginExecute ==
    /\ pc = "constructed"
    /\ history' = SendNotification(history, "task_mesh.started", 0)
    /\ group_idx' = 1
    /\ pc' = IF Len(execution_order) = 0 THEN "summary" ELSE "group"
    /\ UNCHANGED <<max_parallel_tasks, task_keys, tasks, completed_tasks, failed_tasks,
                   running_tasks, execution_order, bounded_tasks, waiting, semaphore,
                   summary>>
    /\ UNCHANGED <<overlapping, meshvars>>

\* _execute_parallel_group up to the gather: the loop that blocks the tasks with a
\* failed dependency, skips the completed ones and collects the others; "if tasks:"
\* a wave with nothing to run creates no semaphore and awaits no gather
DispatchGroup ==
    /\ pc = "group"
    /\ LET group == execution_order[group_idx]
           skip == {t \in Range(group) : DependencyFailed(tasks[t], failed_tasks)}
           todo == SelectSeq(group, LAMBDA t : t \notin skip /\ tasks[t].status # "COMPLETED")
       IN /\ tasks' = [t \in DOMAIN tasks |->
                          IF t \in skip THEN [tasks[t] EXCEPT !.status = "BLOCKED"]
                          ELSE tasks[t]]
          /\ waiting' = todo
          /\ bounded_tasks' = Range(todo)
          /\ semaphore' = IF todo = <<>> THEN semaphore ELSE max_parallel_tasks
          /\ pc' = IF todo = <<>> THEN "nogather" ELSE "gather"
    /\ UNCHANGED <<max_parallel_tasks, task_keys, completed_tasks, failed_tasks,
                   running_tasks, execution_order, group_idx, history, summary>>
    /\ UNCHANGED <<overlapping, meshvars>>

\* bounded_task acquires the semaphore and _execute_task runs up to the handler
StartTask ==
    /\ pc = "gather"
    /\ waiting # <<>>
    /\ CanAcquire(semaphore)
    /\ LET t == Head(waiting)
       IN /\ tasks' = [tasks EXCEPT ![t] = MarkRunning(@)]
          /\ running_tasks' = running_tasks \cup {t}
          /\ history' = SendNotification(history, "task.started", t)
    /\ waiting' = Tail(waiting)
    /\ semaphore' = semaphore - 1
    /\ UNCHANGED <<pc, max_parallel_tasks, task_keys, completed_tasks, failed_tasks,
                   execution_order, group_idx, bounded_tasks, summary>>
    /\ UNCHANGED <<overlapping, meshvars>>

\* the handler of t returns value: the rest of the try block, the finally, the
\* release
HandlerReturns(t, value) ==
    /\ pc = "gather"
    /\ t \in bounded_tasks
    /\ t \notin Range(waiting)
    /\ tasks' = [tasks EXCEPT ![t] = MarkCompleted(@, value)]
    /\ completed_tasks' = completed_tasks \cup {t}
    /\ history' = SendNotification(history, "task.completed", t)
    /\ running_tasks' = running_tasks \ {t}
    /\ semaphore' = ReleaseSemaphore(semaphore)
    /\ bounded_tasks' = AfterOutcome(bounded_tasks, t)
    /\ UNCHANGED <<pc, max_parallel_tasks, task_keys, failed_tasks, execution_order,
                   group_idx, waiting, summary>>
    /\ UNCHANGED <<overlapping, meshvars>>

\* the handler of t raises an Exception: the except block, the finally, the
\* release
HandlerRaises(t) ==
    /\ pc = "gather"
    /\ t \in bounded_tasks
    /\ t \notin Range(waiting)
    /\ tasks' = [tasks EXCEPT ![t] = MarkFailed(@)]
    /\ failed_tasks' = failed_tasks \cup {t}
    /\ history' = SendNotification(history, "task.failed", t)
    /\ running_tasks' = running_tasks \ {t}
    /\ semaphore' = ReleaseSemaphore(semaphore)
    /\ bounded_tasks' = AfterOutcome(bounded_tasks, t)
    /\ UNCHANGED <<pc, max_parallel_tasks, task_keys, completed_tasks, execution_order,
                   group_idx, waiting, summary>>
    /\ UNCHANGED <<overlapping, meshvars>>

\* the handler of t raises a BaseException that is no Exception
\* (CancelledError): "except Exception" does not catch it, only the finally
\* clause runs, the semaphore is released and gather keeps the exception. The
\* task stays RUNNING with neither error nor completed_at.
HandlerCancelled(t) ==
    /\ pc = "gather"
    /\ t \in bounded_tasks
    /\ t \notin Range(waiting)
    /\ running_tasks' = running_tasks \ {t}
    /\ semaphore' = ReleaseSemaphore(semaphore)
    /\ bounded_tasks' = AfterOutcome(bounded_tasks, t)
    /\ UNCHANGED <<pc, max_parallel_tasks, task_keys, tasks, completed_tasks,
                   failed_tasks, execution_order, group_idx, waiting, history, summary>>
    /\ UNCHANGED <<overlapping, meshvars>>

\* the gather has returned, or there was none: the check for failures after the
\* wave, then the next iteration of the loop over execution_order
EndGroup ==
    /\ \/ pc = "gather" /\ GatherDone(bounded_tasks)
       \/ pc = "nogather"
    /\ tasks' = IF failed_tasks # {}
                THEN [t \in DOMAIN tasks |->
                        IF t \in GetBlockedTasks(tasks, failed_tasks)
                        THEN [tasks[t] EXCEPT !.status = "BLOCKED"]
                        ELSE tasks[t]]
                ELSE tasks
    /\ group_idx' = group_idx + 1
    /\ pc' = IF group_idx + 1 > Len(execution_order) THEN "summary" ELSE "group"
    /\ UNCHANGED <<max_parallel_tasks, task_keys, completed_tasks, failed_tasks,
                   running_tasks, execution_order, bounded_tasks, waiting, semaphore,
                   history, summary>>
    /\ UNCHANGED <<overlapping, meshvars>>

\* the summary, the last notification and the return of execute()
Summarize ==
    /\ pc = "summary"
    /\ summary' = <<Summary(task_keys, tasks, completed_tasks, failed_tasks)>>
    /\ history' = SendNotification(history, "task_mesh.completed", 0)
    /\ pc' = "done"
    /\ UNCHANGED <<max_parallel_tasks, task_keys, tasks, completed_tasks, failed_tasks,
                   running_tasks, execution_order, group_idx, bounded_tasks, waiting,
                   semaphore>>
    /\ UNCHANGED <<overlapping, meshvars>>

Next ==
    \/ \E id \in TaskIds, ph \in TaskPhase, deps \in SUBSET TaskIds : AddTask(id, ph, deps)
    \/ Resolve
    \/ BeginExecute
    \/ DispatchGroup
    \/ StartTask
    \/ \E t \in TaskIds, value \in HandlerValues : HandlerReturns(t, value)
    \/ \E t \in TaskIds : HandlerRaises(t)
    \/ \E t \in TaskIds : HandlerCancelled(t)
    \/ EndGroup
    \/ Summarize

Spec == Init /\ [][Next]_vars

\* the event loop runs every coroutine that is ready, and every handler that
\* was started returns or raises
Fairness ==
    /\ WF_vars(BeginExecute)
    /\ WF_vars(DispatchGroup)
    /\ WF_vars(StartTask)
    /\ \A t \in TaskIds :
          WF_vars(\/ \E value \in HandlerValues : HandlerReturns(t, value)
                  \/ HandlerRaises(t)
                  \/ HandlerCancelled(t))
    /\ WF_vars(EndGroup)
    /\ WF_vars(Summarize)

FairSpec == Init /\ [][Next]_vars /\ Fairness

\* ---- vocabulary of the properties ----
Registered == DOMAIN tasks

\* the indexes of the waves of execution_order that contain t
WaveIndexes(t) == {i \in DOMAIN execution_order : t \in Range(execution_order[i])}

\* the registered tasks that t depends on, directly or through a chain
RECURSIVE DepClosure(_)
DepClosure(S) ==
    LET more == S \cup UNION {tasks[x].dependencies \cap Registered : x \in S}
    IN IF more = S THEN S ELSE DepClosure(more)

TransitiveDeps(t) == DepClosure(tasks[t].dependencies \cap Registered)

AcyclicGraph == \A t \in Registered : t \notin TransitiveDeps(t)

Terminal == {"COMPLETED", "FAILED", "BLOCKED"}

ExecuteEntered == pc \in {"group", "gather", "nogather", "summary", "done"}

\* C9: for an acyclic graph, once execute() has been entered it eventually
\* returns its summary, whichever handlers raise.
C9_ExecuteTerminates == (ExecuteEntered /\ AcyclicGraph) ~> (pc = "done" /\ summary # <<>>)

\* execute() has returned for an acyclic graph of a wave wider than the
\* semaphore, in which a handler raised
C9_Witness ==
    /\ pc = "done"
    /\ summary # <<>>
    /\ AcyclicGraph
    /\ failed_tasks # {}
    /\ \E i \in DOMAIN execution_order : Len(execution_order[i]) > max_parallel_tasks

Wave(k) == Range(execution_order[k])

\* the registries the specification calls valid: acyclic, every dependency
\* registered, and no dependency on a task of a later phase
AllDepsRegistered == \A t \in Registered : tasks[t].dependencies \subseteq Registered

ForwardPhases ==
    \A v \in Registered : \A u \in tasks[v].dependencies \cap Registered :
        tasks[u].phase <= tasks[v].phase

ValidGraph == AcyclicGraph /\ AllDepsRegistered /\ ForwardPhases

\* the registered tasks of the phase of t that t depends on through a chain
\* that stays inside the phase
RECURSIVE PhaseDepClosure(_, _)
PhaseDepClosure(S, ph) ==
    LET more == S \cup UNION {{d \in tasks[x].dependencies \cap Registered :
                                  tasks[d].phase = ph} : x \in S}
    IN IF more = S THEN S ELSE PhaseDepClosure(more, ph)

OnPhaseCycle(t) ==
    t \in PhaseDepClosure({d \in tasks[t].dependencies \cap Registered :
                              tasks[d].phase = tasks[t].phase}, tasks[t].phase)

PhaseCycle == \E t \in Registered : OnPhaseCycle(t)

\* C1: in an acyclic registry, for every dependency edge between registered
\* tasks (whatever their phases) the wave of the dependency comes strictly
\* before the wave of the dependent.
C1_WaveValidity ==
    (pc # "init" /\ AcyclicGraph) =>
        \A v \in Registered : \A u \in tasks[v].dependencies \cap Registered :
            /\ WaveIndexes(u) # {}
            /\ WaveIndexes(v) # {}
            /\ \A i \in WaveIndexes(u) : \A j \in WaveIndexes(v) : i < j

\* C2: when execute() has returned, every task that depends, directly or
\* through a chain, on a Failed task is Blocked and its handler was never
\* invoked.  Stated on valid registries, where the ordering of the waves is
\* not in question.
C2_FailureBlocking ==
    (pc = "done" /\ ValidGraph) =>
        \A a \in Registered : tasks[a].status = "FAILED" =>
            \A d \in Registered : a \in TransitiveDeps(d) =>
                /\ tasks[d].status = "BLOCKED"
                /\ tasks[d].started_at = 0

\* C3: whenever a task is Running, every id in its dependencies is Completed.
\* Stated on valid registries, where the ordering of the waves is not in
\* question.
C3_RunningDepsCompleted ==
    ValidGraph =>
        \A t \in Registered : tasks[t].status = "RUNNING" =>
            \A d \in tasks[t].dependencies :
                d \in Registered /\ tasks[d].status = "COMPLETED"

\* C4: the number of Running tasks, and the size of running_tasks, never
\* exceed max_parallel_tasks.
C4_ConcurrencyCeiling ==
    /\ Cardinality(running_tasks) <= max_parallel_tasks
    /\ Cardinality({t \in Registered : tasks[t].status = "RUNNING"}) <= max_parallel_tasks

\* C5: while a task of a wave is Running, every task of every earlier wave is
\* Completed, Failed or Blocked; the waves are taken in the order of
\* execution_order: no task of a wave after the one the loop is at has been
\* started.
C5_WaveBarrier ==
    /\ \A t \in Registered : tasks[t].status = "RUNNING" =>
          \A j \in WaveIndexes(t) :
              /\ j <= group_idx
              /\ \A k \in 1..(j - 1) : \A s \in Wave(k) : tasks[s].status \in Terminal
    /\ \A k \in DOMAIN execution_order : k > group_idx =>
          \A s \in Wave(k) : tasks[s].started_at = 0 /\ tasks[s].status \in {"PENDING", "BLOCKED"}

\* C6: resolution never completes on a registry in which the dependencies
\* among the tasks of one phase contain a cycle (it would have raised).
C6_CycleRejected == pc # "init" => ~PhaseCycle

\* C7: once resolution has completed, execution_order is a partition of the
\* registered ids: no empty wave, no unregistered id, every registered id in
\* exactly one wave and once in it.
C7_OrderIsPartition ==
    pc # "init" =>
        /\ \A k \in DOMAIN execution_order :
              /\ execution_order[k] # <<>>
              /\ Wave(k) \subseteq Registered
              /\ Cardinality(Wave(k)) = Len(execution_order[k])
        /\ \A t \in Registered : Cardinality(WaveIndexes(t)) = 1

\* C8: when execute() has returned, no task is Pending or Running and the
\* Completed, Failed and Blocked tasks add up to the registered tasks.
C8_Conservation ==
    pc = "done" =>
        /\ \A t \in Registered : tasks[t].status \notin {"PENDING", "RUNNING"}
        /\ Cardinality({t \in Registered : tasks[t].status = "COMPLETED"})
           + Cardinality({t \in Registered : tasks[t].status = "FAILED"})
           + Cardinality({t \in Registered : tasks[t].status = "BLOCKED"})
           = Cardinality(Registered)

\* the task s of wave k was handed to the gather: none of its dependencies had
\* failed in an earlier wave
Dispatched(s, k) ==
    ~ \E d \in tasks[s].dependencies \cap failed_tasks : \E i \in WaveIndexes(d) : i < k

\* C10: once a wave in which a handler raised is over, every member of it
\* that was dispatched has had its handler run to its own outcome and is
\* Completed or Failed; while the wave is open no member is cancelled.
C10_SiblingsRunToOutcome ==
    /\ \A t \in Registered : tasks[t].status # "CANCELLED"
    /\ \A k \in DOMAIN execution_order :
          (k < group_idx /\ \E f \in Wave(k) : tasks[f].status = "FAILED") =>
              \A s \in Wave(k) : Dispatched(s, k) =>
                  /\ tasks[s].status \in {"COMPLETED", "FAILED"}
                  /\ tasks[s].started_at = 1
                  /\ tasks[s].completed_at = 1

\* ---- the same run when mcp_protocol.send_notification raises ----
\* "task_mesh.started" raises: the await in execute() is in no try block, the
\* exception leaves execute() and no summary is returned
BeginExecuteSinkRaises ==
    /\ pc = "constructed"
    /\ pc' = "raised"
    /\ UNCHANGED <<max_parallel_tasks, task_keys, tasks, completed_tasks, failed_tasks,
                   running_tasks, execution_order, group_idx, bounded_tasks, waiting,
                   semaphore, history, summary>>
    /\ UNCHANGED <<overlapping, meshvars>>

\* "task.started" raises: the await is before the try block of _execute_task, so
\* neither the except nor the finally runs; the semaphore is released by the
\* async with and gather keeps the exception
StartTaskSinkRaises ==
    /\ pc = "gather"
    /\ waiting # <<>>
    /\ CanAcquire(semaphore)
    /\ LET t == Head(waiting)
       IN /\ tasks' = [tasks EXCEPT ![t] = MarkRunning(@)]
          /\ running_tasks' = running_tasks \cup {t}
          /\ bounded_tasks' = AfterOutcome(bounded_tasks, t)
    /\ waiting' = Tail(waiting)
    /\ UNCHANGED <<pc, max_parallel_tasks, task_keys, completed_tasks, failed_tasks,
                   execution_order, group_idx, semaphore, history, summary>>
    /\ UNCHANGED <<overlapping, meshvars>>

\* the handler of t returns and "task.completed" raises inside the try block:
\* the except block then marks the completed task failed; "task.failed" is sent
\* from the except block and may raise again
HandlerReturnsSinkRaises(t, value, again) ==
    /\ pc = "gather"
    /\ t \in bounded_tasks
    /\ t \notin Range(waiting)
    /\ tasks' = [tasks EXCEPT ![t] = MarkFailed(MarkCompleted(@, value))]
    /\ completed_tasks' = completed_tasks \cup {t}
    /\ failed_tasks' = failed_tasks \cup {t}
    /\ history' = IF again THEN history ELSE SendNotification(history, "task.failed", t)
    /\ running_tasks' = running_tasks \ {t}
    /\ semaphore' = ReleaseSemaphore(semaphore)
    /\ bounded_tasks' = AfterOutcome(bounded_tasks, t)
    /\ UNCHANGED <<pc, max_parallel_tasks, task_keys, execution_order, group_idx,
                   waiting, summary>>
    /\ UNCHANGED <<overlapping, meshvars>>

\* the handler of t raises and "task.failed" raises in the except block: the
\* finally runs and gather keeps the exception
HandlerRaisesSinkRaises(t) ==
    /\ pc = "gather"
    /\ t \in bounded_tasks
    /\ t \notin Range(waiting)
    /\ tasks' = [tasks EXCEPT ![t] = MarkFailed(@)]
    /\ failed_tasks' = failed_tasks \cup {t}
    /\ running_tasks' = running_tasks \ {t}
    /\ semaphore' = ReleaseSemaphore(semaphore)
    /\ bounded_tasks' = AfterOutcome(bounded_tasks, t)
    /\ UNCHANGED <<pc, max_parallel_tasks, task_keys, completed_tasks, execution_order,
                   group_idx, waiting, history, summary>>
    /\ UNCHANGED <<overlapping, meshvars>>

\* "task_mesh.completed" raises after the summary was built: the exception
\* leaves execute() and the summary is not returned
SummarizeSinkRaises ==
    /\ pc = "summary"
    /\ pc' = "raised"
    /\ UNCHANGED <<max_parallel_tasks, task_keys, tasks, completed_tasks, failed_tasks,
                   running_tasks, execution_order, group_idx, bounded_tasks, waiting,
                   semaphore, history, summary>>
    /\ UNCHANGED <<overlapping, meshvars>>

NextSink ==
    \/ \E id \in TaskIds, ph \in TaskPhase, deps \in SUBSET TaskIds : AddTask(id, ph, deps)
    \/ Resolve
    \/ BeginExecute
    \/ BeginExecuteSinkRaises
    \/ DispatchGroup
    \/ StartTask
    \/ StartTaskSinkRaises
    \/ \E t \in TaskIds, value \in HandlerValues : HandlerReturns(t, value)
    \/ \E t \in TaskIds, value \in HandlerValues, again \in BOOLEAN :
          HandlerReturnsSinkRaises(t, value, again)
    \/ \E t \in TaskIds : HandlerRaises(t)
    \/ \E t \in TaskIds : HandlerRaisesSinkRaises(t)
    \/ \E t \in TaskIds : HandlerCancelled(t)
    \/ EndGroup
    \/ Summarize
    \/ SummarizeSinkRaises

SinkSpec == Init /\ [][NextSink]_vars

\* ---- runs over a registry of MaxWideTasks tasks ----
\* the dependency lists of n tasks, each task depending on tasks added before it
RECURSIVE ForwardDeps(_)
ForwardDeps(n) ==
    IF n = 0 THEN {<<>>}
    ELSE {Append(f, d) : f \in ForwardDeps(n - 1), d \in SUBSET (1..(n - 1))}

\* the registry after _initialize_tasks has added MaxWideTasks tasks: the first
\* split tasks in the first phase, the others in the last phase
WideRegistry(deps, split) ==
    [t \in WideIds |-> NewTask(IF t <= split THEN 1 ELSE NumPhases, deps[t])]

InitWide ==
    /\ pc = "init"
    /\ max_parallel_tasks \in 1..MaxParallel
    /\ task_keys = [t \in WideIds |-> t]
    /\ \E deps \in ForwardDeps(MaxWideTasks), split \in WideSplits :
          /\ tasks = WideRegistry(deps, split)
          /\ EdgeCount(tasks) <= MaxWideEdges
    /\ completed_tasks = {}
    /\ failed_tasks = {}
    /\ running_tasks = {}
    /\ execution_order = <<>>
    /\ group_idx = 0
    /\ bounded_tasks = {}
    /\ waiting = <<>>
    /\ semaphore = 0
    /\ history = <<>>
    /\ summary = <<>>
    /\ overlapping = <<>>
    /\ MeshInitial

NextWide ==
    \/ Resolve
    \/ BeginExecute
    \/ DispatchGroup
    \/ StartTask
    \/ \E t \in WideIds : HandlerReturns(t, "result")
    \/ \E t \in WideIds : HandlerRaises(t)
    \/ EndGroup
    \/ Summarize

SpecWide == InitWide /\ [][NextWide]_vars

\* ---- execute() called again on the same orchestrator ----
\* the calls of execute() made so far
ExecuteCalls == Len(SelectSeq(history, LAMBDA e : e[1] = "task_mesh.started"))

\* execute() is called after it has returned: the state of the first run is
\* kept, the loop over execution_order starts again
ExecuteAfterReturn ==
    /\ pc = "done"
    /\ ExecuteCalls < MaxRuns
    /\ history' = SendNotification(history, "task_mesh.started", 0)
    /\ group_idx' = 1
    /\ pc' = IF Len(execution_order) = 0 THEN "summary" ELSE "group"
    /\ UNCHANGED <<max_parallel_tasks, task_keys, tasks, completed_tasks, failed_tasks,
                   running_tasks, execution_order, bounded_tasks, waiting, semaphore,
                   summary>>
    /\ UNCHANGED <<overlapping, meshvars>>

\* ---- execute() called while an earlier call is suspended in its gather ----
\* execute() keeps no flag that it is running: a call made meanwhile is accepted
\* and walks execution_order on the same TaskMeshState. Its loop index, its
\* semaphore and its gather are locals of the call: overlapping holds them.
\* A call runs without interleaving from one gather that suspends it to the next.

\* the first loop of _execute_parallel_group on a wave
BlockSkipped(group, reg, failed) ==
    [t \in DOMAIN reg |->
        IF t \in Range(group) /\ DependencyFailed(reg[t], failed)
        THEN [reg[t] EXCEPT !.status = "BLOCKED"]
        ELSE reg[t]]

\* the coroutines _execute_parallel_group collects for a wave
ToExecute(group, reg, failed) ==
    SelectSeq(group, LAMBDA t : ~DependencyFailed(reg[t], failed)
                                /\ reg[t].status # "COMPLETED")

\* the check for failures that execute() makes after a wave
CheckFailures(reg, failed) ==
    IF failed # {}
    THEN [t \in DOMAIN reg |->
            IF t \in GetBlockedTasks(reg, failed)
            THEN [reg[t] EXCEPT !.status = "BLOCKED"]
            ELSE reg[t]]
    ELSE reg

\* the loop of execute() from wave i up to the first wave that has something to
\* run (its gather suspends the call) or to the end of execution_order
RECURSIVE RunWaves(_, _, _, _)
RunWaves(i, order, reg, failed) ==
    IF i > Len(order) THEN [tasks |-> reg, group_idx |-> i, todo |-> <<>>]
    ELSE LET todo == ToExecute(order[i], reg, failed)
             marked == BlockSkipped(order[i], reg, failed)
         IN IF todo # <<>> THEN [tasks |-> marked, group_idx |-> i, todo |-> todo]
            ELSE RunWaves(i + 1, order, CheckFailures(marked, failed), failed)

\* the locals of a call that RunWaves left at wave r.group_idx or at the end
CallAfter(r) ==
    IF r.todo # <<>>
    THEN [pc |-> "gather", group_idx |-> r.group_idx, bounded_tasks |-> Range(r.todo),
          waiting |-> r.todo, semaphore |-> max_parallel_tasks, summary |-> <<>>]
    ELSE [pc |-> "done", group_idx |-> r.group_idx, bounded_tasks |-> {},
          waiting |-> <<>>, semaphore |-> 0,
          summary |-> <<Summary(task_keys, r.tasks, completed_tasks, failed_tasks)>>]

\* the notification a call sends when RunWaves took it to the end
HistoryAfter(hist, r) ==
    IF r.todo # <<>> THEN hist ELSE SendNotification(hist, "task_mesh.completed", 0)

\* no call is between two suspension points: the first call is suspended in a
\* gather or has returned
FirstCallSuspended == pc \in {"gather", "done"}

\* execute() is called while the first call is suspended in its gather
ExecuteWhileSuspended ==
    /\ pc = "gather"
    /\ ExecuteCalls < MaxRuns
    /\ LET r == RunWaves(1, execution_order, tasks, failed_tasks)
       IN /\ tasks' = r.tasks
          /\ overlapping' = Append(overlapping, CallAfter(r))
          /\ history' = HistoryAfter(SendNotification(history, "task_mesh.started", 0), r)
    /\ UNCHANGED <<pc, max_parallel_tasks, task_keys, completed_tasks, failed_tasks,
                   running_tasks, execution_order, group_idx, bounded_tasks, waiting,
                   semaphore, summary>>
    /\ UNCHANGED meshvars

\* a further call of execute() on the same orchestrator
ExecuteAgain ==
    \/ ExecuteAfterReturn
    \/ ExecuteWhileSuspended

\* bounded_task of call k acquires the semaphore of the call and _execute_task
\* runs up to the handler
OverlappingStartTask(k) ==
    /\ FirstCallSuspended
    /\ k \in DOMAIN overlapping
    /\ overlapping[k].waiting # <<>>
    /\ CanAcquire(overlapping[k].semaphore)
    /\ LET t == Head(overlapping[k].waiting)
       IN /\ tasks' = [tasks EXCEPT ![t] = MarkRunning(@)]
          /\ running_tasks' = running_tasks \cup {t}
          /\ history' = SendNotification(history, "task.started", t)
    /\ overlapping' = [overlapping EXCEPT ![k].waiting = Tail(@),
                                          ![k].semaphore = @ - 1]
    /\ UNCHANGED <<pc, max_parallel_tasks, task_keys, completed_tasks, failed_tasks,
                   execution_order, group_idx, bounded_tasks, waiting, semaphore,
                   summary>>
    /\ UNCHANGED meshvars

\* the handler that call k invoked for t returns value
OverlappingHandlerReturns(k, t, value) ==
    /\ FirstCallSuspended
    /\ k \in DOMAIN overlapping
    /\ t \in overlapping[k].bounded_tasks
    /\ t \notin Range(overlapping[k].waiting)
    /\ tasks' = [tasks EXCEPT ![t] = MarkCompleted(@, value)]
    /\ completed_tasks' = completed_tasks \cup {t}
    /\ history' = SendNotification(history, "task.completed", t)
    /\ running_tasks' = running_tasks \ {t}
    /\ overlapping' = [overlapping EXCEPT
                          ![k].semaphore = ReleaseSemaphore(@),
                          ![k].bounded_tasks = AfterOutcome(@, t)]
    /\ UNCHANGED <<pc, max_parallel_tasks, task_keys, failed_tasks, execution_order,
                   group_idx, bounded_tasks, waiting, semaphore, summary>>
    /\ UNCHANGED meshvars

\* the handler that call k invoked for t raises an Exception
OverlappingHandlerRaises(k, t) ==
    /\ FirstCallSuspended
    /\ k \in DOMAIN overlapping
    /\ t \in overlapping[k].bounded_tasks
    /\ t \notin Range(overlapping[k].waiting)
    /\ tasks' = [tasks EXCEPT ![t] = MarkFailed(@)]
    /\ failed_tasks' = failed_tasks \cup {t}
    /\ history' = SendNotification(history, "task.failed", t)
    /\ running_tasks' = running_tasks \ {t}
    /\ overlapping' = [overlapping EXCEPT
                          ![k].semaphore = ReleaseSemaphore(@),
                          ![k].bounded_tasks = AfterOutcome(@, t)]
    /\ UNCHANGED <<pc, max_parallel_tasks, task_keys, completed_tasks, execution_order,
                   group_idx, bounded_tasks, waiting, semaphore, summary>>
    /\ UNCHANGED meshvars

\* the handler that call k invoked for t raises a BaseException that is no
\* Exception: only the finally clause and the release of the semaphore run
OverlappingHandlerCancelled(k, t) ==
    /\ FirstCallSuspended
    /\ k \in DOMAIN overlapping
    /\ t \in overlapping[k].bounded_tasks
    /\ t \notin Range(overlapping[k].waiting)
    /\ running_tasks' = running_tasks \ {t}
    /\ overlapping' = [overlapping EXCEPT
                          ![k].semaphore = ReleaseSemaphore(@),
                          ![k].bounded_tasks = AfterOutcome(@, t)]
    /\ UNCHANGED <<pc, max_parallel_tasks, task_keys, tasks, completed_tasks,
                   failed_tasks, execution_order, group_idx, bounded_tasks, waiting,
                   semaphore, history, summary>>
    /\ UNCHANGED meshvars

\* the gather of call k has returned: the check for failures, then the loop
\* goes on to the next gather or to the summary and the return of the call
OverlappingEndGroup(k) ==
    /\ FirstCallSuspended
    /\ k \in DOMAIN overlapping
    /\ overlapping[k].pc = "gather"
    /\ GatherDone(overlapping[k].bounded_tasks)
    /\ LET r == RunWaves(overlapping[k].group_idx + 1, execution_order,
                         CheckFailures(tasks, failed_tasks), failed_tasks)
       IN /\ tasks' = r.tasks
          /\ overlapping' = [overlapping EXCEPT ![k] = CallAfter(r)]
          /\ history' = HistoryAfter(history, r)
    /\ UNCHANGED <<pc, max_parallel_tasks, task_keys, completed_tasks, failed_tasks,
                   running_tasks, execution_order, group_idx, bounded_tasks, waiting,
                   semaphore, summary>>
    /\ UNCHANGED meshvars

\* the calls that may overlap
CallIds == 1..(MaxRuns - 1)

NextAgain ==
    \/ \E id \in AgainIds, ph \in TaskPhase, deps \in SUBSET AgainIds : AddTask(id, ph, deps)
    \/ Resolve
    \/ BeginExecute
    \/ DispatchGroup
    \/ StartTask
    \/ \E t \in AgainIds, value \in HandlerValues : HandlerReturns(t, value)
    \/ \E t \in AgainIds : HandlerRaises(t)
    \/ \E t \in AgainIds : HandlerCancelled(t)
    \/ EndGroup
    \/ Summarize
    \/ ExecuteAgain
    \/ \E k \in CallIds : OverlappingStartTask(k)
    \/ \E k \in CallIds, t \in AgainIds, value \in HandlerValues :
          OverlappingHandlerReturns(k, t, value)
    \/ \E k \in CallIds, t \in AgainIds : OverlappingHandlerRaises(k, t)
    \/ \E k \in CallIds, t \in AgainIds : OverlappingHandlerCancelled(k, t)
    \/ \E k \in CallIds : OverlappingEndGroup(k)

SpecAgain == Init /\ [][NextAgain]_vars

\* ---- ImplementationTaskMesh (src/core/implementation_task_mesh.py) ----
\* Only an await of a collaborator (superscope, orchestrator) or of the lock
\* suspends a call: the code between two of them runs without interleaving.
\* dataclass Task of the mesh; ids stand for the uuid4 values in creation order
NewMeshTask(deps) ==
    [state |-> "PENDING", dependencies |-> deps, started_at |-> 0, completed_at |-> 0]

\* a limit test that lets one task too many in
LimitReachedStrict(executing, limit) == Cardinality(executing) > limit

\* len(self.executing_tasks) >= self.max_parallel_tasks
LimitReached(executing, limit) == Cardinality(executing) >= limit

\* a state test that also lets an assigned task be assigned again
IsPendingOrAssigned(task) == task.state \in {"PENDING", "ASSIGNED"}

\* task.state == TaskState.PENDING
IsPending(task) == task.state = "PENDING"

\* every dependency is a known task in state COMPLETED
DependenciesCompleted(reg, task) ==
    \A d \in task.dependencies : d \in DOMAIN reg /\ reg[d].state = "COMPLETED"

\* a sequence without its i-th element
RemoveAt(seq, i) == SubSeq(seq, 1, i - 1) \o SubSeq(seq, i + 1, Len(seq))

\* create_task up to its await: the Task is built and the call is suspended in
\* superscope.get_dimensional_context(); nothing is stored yet
CreateTask(deps) ==
    /\ Len(mesh_tasks) + Len(creating) < MaxMeshTasks
    /\ creating' = Append(creating, deps)
    /\ UNCHANGED <<mesh_tasks, executing_tasks, calls, evolution_lock, lock_waiters,
                   returned, assigned, passed, invoked>>
    /\ UNCHANGED <<max_parallel_tasks, orchvars>>

\* the context of the i-th suspended create_task call returns: the task is
\* stored, self.tasks[task.id] = task; ids number the tasks in the order of
\* their store
CreateContextReturns(i) ==
    /\ i \in DOMAIN creating
    /\ mesh_tasks' = Append(mesh_tasks, NewMeshTask(creating[i]))
    /\ creating' = RemoveAt(creating, i)
    /\ calls' = Append(calls, "none")
    /\ assigned' = Append(assigned, 0)
    /\ passed' = Append(passed, 0)
    /\ invoked' = Append(invoked, 0)
    /\ UNCHANGED <<executing_tasks, evolution_lock, lock_waiters, returned>>
    /\ UNCHANGED <<max_parallel_tasks, orchvars>>

\* the context of the i-th suspended create_task call raises (the SuperScope of
\* the repository has no get_dimensional_context): the call ends, nothing is stored
CreateContextRaises(i) ==
    /\ i \in DOMAIN creating
    /\ creating' = RemoveAt(creating, i)
    /\ UNCHANGED <<mesh_tasks, executing_tasks, calls, evolution_lock, lock_waiters,
                   returned, assigned, passed, invoked>>
    /\ UNCHANGED <<max_parallel_tasks, orchvars>>

\* assign_task: no await inside, the whole call is one step
AssignTask(id) ==
    /\ IF /\ ~LimitReached(executing_tasks, max_parallel_tasks)
          /\ id \in DOMAIN mesh_tasks
          /\ IsPending(mesh_tasks[id])
          /\ DependenciesCompleted(mesh_tasks, mesh_tasks[id])
       THEN /\ mesh_tasks' = [mesh_tasks EXCEPT ![id].state = "ASSIGNED",
                                                ![id].started_at = @ + 1]
            /\ executing_tasks' = executing_tasks \cup {id}
            /\ assigned' = [assigned EXCEPT ![id] = @ + 1]
            /\ returned' = [op |-> "assign_task", id |-> id, value |-> TRUE]
       ELSE /\ returned' = [op |-> "assign_task", id |-> id, value |-> FALSE]
            /\ UNCHANGED <<mesh_tasks, executing_tasks, assigned>>
    /\ UNCHANGED <<creating, calls, evolution_lock, lock_waiters, passed, invoked>>
    /\ UNCHANGED <<max_parallel_tasks, orchvars>>

\* execute_task up to its first await: the ASSIGNED check and, when it is
\* passed, task.state = EXECUTING
ExecuteTask(id) ==
    /\ IF id \in DOMAIN mesh_tasks /\ mesh_tasks[id].state = "ASSIGNED"
       THEN /\ mesh_tasks' = [mesh_tasks EXCEPT ![id].state = "EXECUTING"]
            /\ calls' = [calls EXCEPT ![id] = "context"]
            /\ passed' = [passed EXCEPT ![id] = @ + 1]
            /\ UNCHANGED returned
       ELSE /\ returned' = [op |-> "execute_task", id |-> id, value |-> FALSE]
            /\ UNCHANGED <<mesh_tasks, calls, passed>>
    /\ UNCHANGED <<creating, executing_tasks, evolution_lock, lock_waiters, assigned,
                   invoked>>
    /\ UNCHANGED <<max_parallel_tasks, orchvars>>

\* how execute_task ends once its awaits are over: "COMPLETED" by the end of the
\* try block; "FAILED" by an Exception before task.state = COMPLETED;
\* "FAILED_AFTER_COMPLETED" when COMPLETED and completed_at are written and
\* _update_system_metrics then raises (metrics of the result that are no
\* numbers), so that the except block writes FAILED over COMPLETED; "CANCELLED"
\* by an exception that is no Exception, which the except block does not catch
Ends == {"COMPLETED", "FAILED", "FAILED_AFTER_COMPLETED", "CANCELLED"}

\* the state of the task after the end
EndState(st, end) ==
    IF end = "COMPLETED" THEN "COMPLETED"
    ELSE IF end = "CANCELLED" THEN st
    ELSE "FAILED"

\* the end of execute_task: the last writes of the try or the except block,
\* then the finally, whose executing_tasks.remove(task_id) raises KeyError when
\* the id is not in the set
EndExecuteTask(id, end) ==
    /\ mesh_tasks' = [mesh_tasks EXCEPT
                        ![id].state = EndState(@, end),
                        ![id].completed_at =
                            IF end \in {"COMPLETED", "FAILED_AFTER_COMPLETED"}
                            THEN @ + 1 ELSE @]
    /\ IF id \in executing_tasks
       THEN /\ executing_tasks' = executing_tasks \ {id}
            /\ IF end = "CANCELLED"
               THEN /\ calls' = [calls EXCEPT ![id] = "cancelled"]
                    /\ UNCHANGED returned
               ELSE /\ calls' = [calls EXCEPT ![id] = "returned"]
                    /\ returned' = [op |-> "execute_task", id |-> id,
                                    value |-> end = "COMPLETED"]
       ELSE /\ calls' = [calls EXCEPT ![id] = "raised"]
            /\ UNCHANGED <<executing_tasks, returned>>

\* superscope.get_dimensional_context() returns: execute_implementation is invoked
ContextReturns(id) ==
    /\ id \in DOMAIN calls
    /\ calls[id] = "context"
    /\ calls' = [calls EXCEPT ![id] = "implementation"]
    /\ invoked' = [invoked EXCEPT ![id] = @ + 1]
    /\ UNCHANGED <<mesh_tasks, creating, executing_tasks, evolution_lock, lock_waiters,
                   returned, assigned, passed>>
    /\ UNCHANGED <<max_parallel_tasks, orchvars>>

\* superscope.get_dimensional_context() raises an Exception (or returns what
\* task.context.update does not take), or raises a BaseException (cancelled)
ContextRaises(id, cancelled) ==
    /\ id \in DOMAIN calls
    /\ calls[id] = "context"
    /\ EndExecuteTask(id, IF cancelled THEN "CANCELLED" ELSE "FAILED")
    /\ UNCHANGED <<creating, evolution_lock, lock_waiters, assigned, passed, invoked>>
    /\ UNCHANGED <<max_parallel_tasks, orchvars>>

\* what _evolve_task does once it holds the lock, and the end of execute_task
\* that follows when the lock is given back at once: "EVOLVING" when the
\* evolution potential is above 1.5 (the call then awaits get_evolved_context()
\* under the lock), or one of the ends
EvolveOutcomes == {"EVOLVING", "COMPLETED", "FAILED", "FAILED_AFTER_COMPLETED"}

\* asyncio.Lock keeps one future per call suspended in acquire(), in the order
\* of arrival: "PENDING", "FINISHED" once _wake_up_first() has set its result,
\* "CANCELLED" once Task.cancel() has cancelled it; must_cancel is the flag
\* Task.cancel() sets on a call whose future is finished already
Waiter(id) == [id |-> id, fut |-> "PENDING", must_cancel |-> FALSE]

\* the place of the call id among the waiters of the lock
WaiterPos(id) == CHOOSE i \in DOMAIN lock_waiters : lock_waiters[i].id = id

\* all(w.cancelled() for w in self._waiters)
AllCancelled(waiters) == \A i \in DOMAIN waiters : waiters[i].fut = "CANCELLED"

\* Lock._wake_up_first: the first waiter gets its result unless it is done
WakeUpFirst(waiters) ==
    IF waiters # <<>> /\ waiters[1].fut = "PENDING"
    THEN [waiters EXCEPT ![1].fut = "FINISHED"]
    ELSE waiters

\* _evolve_task once the lock is held, the other waiters being waiters; the
\* end of `async with` releases the lock and wakes the first waiter
EvolveTask(id, outcome, waiters) ==
    IF outcome = "EVOLVING"
    THEN /\ mesh_tasks' = [mesh_tasks EXCEPT ![id].state = "EVOLVING"]
         /\ calls' = [calls EXCEPT ![id] = "evolved_context"]
         /\ evolution_lock' = id
         /\ lock_waiters' = waiters
         /\ UNCHANGED <<executing_tasks, returned>>
    ELSE /\ EndExecuteTask(id, outcome)
         /\ evolution_lock' = 0
         /\ lock_waiters' = WakeUpFirst(waiters)

\* orchestrator.execute_implementation() returns a dict: in _evolve_task
\* Lock.acquire() takes the lock at once when it is not locked and every
\* waiter is cancelled, and appends a future and waits for it otherwise
ImplementationReturns(id, outcome) ==
    /\ id \in DOMAIN calls
    /\ calls[id] = "implementation"
    /\ IF evolution_lock = 0 /\ AllCancelled(lock_waiters)
       THEN EvolveTask(id, outcome, lock_waiters)
       ELSE /\ calls' = [calls EXCEPT ![id] = "lock"]
            /\ lock_waiters' = Append(lock_waiters, Waiter(id))
            /\ UNCHANGED <<mesh_tasks, executing_tasks, evolution_lock, returned>>
    /\ UNCHANGED <<creating, assigned, passed, invoked>>
    /\ UNCHANGED <<max_parallel_tasks, orchvars>>

\* orchestrator.execute_implementation() raises an Exception (or its result is
\* no dict), or raises a BaseException (cancelled)
ImplementationRaises(id, cancelled) ==
    /\ id \in DOMAIN calls
    /\ calls[id] = "implementation"
    /\ EndExecuteTask(id, IF cancelled THEN "CANCELLED" ELSE "FAILED")
    /\ UNCHANGED <<creating, evolution_lock, lock_waiters, assigned, passed, invoked>>
    /\ UNCHANGED <<max_parallel_tasks, orchvars>>

\* a waiter whose future is finished resumes in Lock.acquire(): it leaves the
\* waiters and locks the lock
LockAcquired(id, outcome) ==
    /\ id \in DOMAIN calls
    /\ calls[id] = "lock"
    /\ lock_waiters[WaiterPos(id)].fut = "FINISHED"
    /\ ~lock_waiters[WaiterPos(id)].must_cancel
    /\ EvolveTask(id, outcome, RemoveAt(lock_waiters, WaiterPos(id)))
    /\ UNCHANGED <<creating, assigned, passed, invoked>>
    /\ UNCHANGED <<max_parallel_tasks, orchvars>>

\* Task.cancel() of an execute_task call that waits in
\* `async with self.evolution_lock`: a pending future is cancelled, with a
\* finished future the call is marked to be cancelled when it resumes; the
\* call stays among the waiters and in executing_tasks until it resumes
CancelLockWaiter(id) ==
    /\ id \in DOMAIN calls
    /\ calls[id] = "lock"
    /\ \/ /\ lock_waiters[WaiterPos(id)].fut = "PENDING"
          /\ lock_waiters' = [lock_waiters EXCEPT ![WaiterPos(id)].fut = "CANCELLED"]
       \/ /\ lock_waiters[WaiterPos(id)].fut = "FINISHED"
          /\ ~lock_waiters[WaiterPos(id)].must_cancel
          /\ lock_waiters' = [lock_waiters EXCEPT ![WaiterPos(id)].must_cancel = TRUE]
    /\ UNCHANGED <<mesh_tasks, creating, executing_tasks, calls, evolution_lock, returned,
                   assigned, passed, invoked>>
    /\ UNCHANGED <<max_parallel_tasks, orchvars>>

\* the cancelled waiter resumes: CancelledError is raised in Lock.acquire(), the
\* call leaves the waiters and wakes the first of them when the lock is not
\* locked; the error passes `except Exception` and the finally block runs; the
\* task keeps its state EXECUTING, or FAILED when cleanup() ran before
LockWaiterCancelled(id) ==
    /\ id \in DOMAIN calls
    /\ calls[id] = "lock"
    /\ \/ lock_waiters[WaiterPos(id)].fut = "CANCELLED"
       \/ lock_waiters[WaiterPos(id)].must_cancel
    /\ lock_waiters' = IF evolution_lock = 0
                       THEN WakeUpFirst(RemoveAt(lock_waiters, WaiterPos(id)))
                       ELSE RemoveAt(lock_waiters, WaiterPos(id))
    /\ EndExecuteTask(id, "CANCELLED")
    /\ UNCHANGED <<creating, evolution_lock, assigned, passed, invoked>>
    /\ UNCHANGED <<max_parallel_tasks, orchvars>>

\* superscope.get_evolved_context() returns: the lock is released, the first
\* waiter is woken and execute_task runs to its end
EvolvedContextReturns(id, end) ==
    /\ id \in DOMAIN calls
    /\ calls[id] = "evolved_context"
    /\ end \in {"COMPLETED", "FAILED_AFTER_COMPLETED"}
    /\ evolution_lock' = 0
    /\ lock_waiters' = WakeUpFirst(lock_waiters)
    /\ EndExecuteTask(id, end)
    /\ UNCHANGED <<creating, assigned, passed, invoked>>
    /\ UNCHANGED <<max_parallel_tasks, orchvars>>

\* superscope.get_evolved_context() raises an Exception (or returns what
\* task.context.update does not take), or raises a BaseException (cancelled):
\* the lock is released, the first waiter is woken, and the task is left
\* EVOLVING when cancelled
EvolvedContextRaises(id, cancelled) ==
    /\ id \in DOMAIN calls
    /\ calls[id] = "evolved_context"
    /\ evolution_lock' = 0
    /\ lock_waiters' = WakeUpFirst(lock_waiters)
    /\ EndExecuteTask(id, IF cancelled THEN "CANCELLED" ELSE "FAILED")
    /\ UNCHANGED <<creating, assigned, passed, invoked>>
    /\ UNCHANGED <<max_parallel_tasks, orchvars>>

\* cleanup: every id of executing_tasks is marked FAILED and removed
Cleanup ==
    /\ mesh_tasks' = [id \in DOMAIN mesh_tasks |->
                        IF id \in executing_tasks
                        THEN [mesh_tasks[id] EXCEPT !.state = "FAILED"]
                        ELSE mesh_tasks[id]]
    /\ executing_tasks' = {}
    /\ UNCHANGED <<creating, calls, evolution_lock, lock_waiters, returned, assigned,
                   passed, invoked>>
    /\ UNCHANGED <<max_parallel_tasks, orchvars>>

\* the limits __init__ takes: it stores the argument max_parallel_tasks
\* (default 4) without a test, so that a mesh is constructed with a limit of 0
\* and with a negative limit as well as with a limit from 1 on
MeshLimits == -1..MaxParallel

MeshInit ==
    /\ max_parallel_tasks \in MeshLimits
    /\ MeshInitial
    /\ pc = "init"
    /\ task_keys = <<>>
    /\ tasks = <<>>
    /\ completed_tasks = {}
    /\ failed_tasks = {}
    /\ running_tasks = {}
    /\ execution_order = <<>>
    /\ group_idx = 0
    /\ bounded_tasks = {}
    /\ waiting = <<>>
    /\ semaphore = 0
    /\ history = <<>>
    /\ summary = <<>>
    /\ overlapping = <<>>

NextMesh ==
    \/ \E deps \in MeshDepSets : CreateTask(deps)
    \/ \E i \in MeshIds : CreateContextReturns(i)
    \/ \E i \in MeshIds : CreateContextRaises(i)
    \/ \E id \in MeshIds : AssignTask(id)
    \/ \E id \in MeshIds : ExecuteTask(id)
    \/ \E id \in MeshIds : ContextReturns(id)
    \/ \E id \in MeshIds, cancelled \in BOOLEAN : ContextRaises(id, cancelled)
    \/ \E id \in MeshIds, outcome \in EvolveOutcomes : ImplementationReturns(id, outcome)
    \/ \E id \in MeshIds, cancelled \in BOOLEAN : ImplementationRaises(id, cancelled)
    \/ \E id \in MeshIds, outcome \in EvolveOutcomes : LockAcquired(id, outcome)
    \/ \E id \in MeshIds : CancelLockWaiter(id)
    \/ \E id \in MeshIds : LockWaiterCancelled(id)
    \/ \E id \in MeshIds, end \in Ends : EvolvedContextReturns(id, end)
    \/ \E id \in MeshIds, cancelled \in BOOLEAN : EvolvedContextRaises(id, cancelled)
    \/ Cleanup

SpecMesh == MeshInit /\ [][NextMesh]_vars

\* the sink was told that the handler of t returned
NotifiedCompleted(t) == \E i \in DOMAIN history : history[i] = <<"task.completed", t>>

\* the sink was told that the handler of t raised
NotifiedFailed(t) == \E i \in DOMAIN history : history[i] = <<"task.failed", t>>

\* the handler of t was invoked and _execute_task has left its finally clause
HandlerEnded(t) == tasks[t].started_at # 0 /\ t \notin running_tasks

\* the handler of t was invoked and ended without returning: it raised
HandlerRaised(t) == HandlerEnded(t) /\ tasks[t].status # "COMPLETED"

\* C11: a task whose handler raised (its handler has ended and did not return)
\* is Failed, has its error and completed_at set and is in failed_tasks; the
\* exception does not leave execute(): after a failure the remaining waves are
\* gone through and the summary is returned.
C11_FailureRecorded ==
    /\ [](\A t \in Registered :
            (\/ HandlerRaised(t)
             \/ NotifiedFailed(t) \/ tasks[t].error # "None" \/ t \in failed_tasks) =>
                /\ tasks[t].status = "FAILED"
                /\ tasks[t].error # "None"
                /\ tasks[t].completed_at = 1
                /\ t \in failed_tasks
                /\ NotifiedFailed(t))
    /\ (failed_tasks # {}) ~>
          (pc = "done" /\ summary # <<>> /\ group_idx = Len(execution_order) + 1)

\* C12: when the notification sink raises on a lifecycle notification,
\* execute() still returns a summary and every task ends with the status it
\* has in the run where the sink never fails: execute() never ends by an
\* exception, and once it has returned no task is left Running and every task
\* whose handler returned a result is Completed.
C12_SinkFailureHarmless ==
    /\ pc # "raised"
    /\ pc = "done" =>
          /\ summary # <<>>
          /\ \A t \in Registered :
                /\ tasks[t].status # "RUNNING"
                /\ tasks[t].result # "None" => tasks[t].status = "COMPLETED"

\* the status changes the lifecycle allows
AllowedTransitions ==
    {<<"PENDING", "RUNNING">>, <<"RUNNING", "COMPLETED">>, <<"RUNNING", "FAILED">>,
     <<"PENDING", "BLOCKED">>}

\* C13: within a run a status changes only Pending->Running, Running->Completed,
\* Running->Failed or Pending->Blocked: a Completed, Failed or Blocked task
\* keeps its status and no task returns to Pending.
C13_StatusTransitions ==
    [][\A t \in Registered :
          tasks'[t].status # tasks[t].status =>
              <<tasks[t].status, tasks'[t].status>> \in AllowedTransitions]_vars

\* the run is over with a Blocked task, and with a Completed task whose
\* dependency, a task of a later phase, Failed after it
C13_Witness ==
    /\ pc = "done"
    /\ \E t \in Registered : tasks[t].status = "BLOCKED"
    /\ \E t \in Registered :
          /\ tasks[t].status = "COMPLETED"
          /\ DependencyFailed(tasks[t], failed_tasks)

\* C14: in every reachable state no task has both a result and an error: a
\* Completed task has its result and no error, a Failed task its error and no
\* result, a Pending, Running or Blocked task neither.
\* The result of a Completed task is what its handler returned (None when the
\* handler returned None), and nothing but the return of its handler writes it.
C14_ResultXorError ==
    /\ [](\A t \in Registered :
            /\ ~(tasks[t].result # "None" /\ tasks[t].error # "None")
            /\ tasks[t].status = "COMPLETED" => tasks[t].error = "None"
            /\ tasks[t].status = "FAILED" =>
                  (tasks[t].error # "None" /\ tasks[t].result = "None")
            /\ tasks[t].status \in {"PENDING", "RUNNING", "BLOCKED"} =>
                  (tasks[t].result = "None" /\ tasks[t].error = "None"))
    /\ [][\A t \in Registered :
            /\ \A value \in HandlerValues :
                  HandlerReturns(t, value) =>
                      (tasks'[t].status = "COMPLETED" /\ tasks'[t].result = value)
            /\ tasks'[t].result # tasks[t].result =>
                  \E value \in HandlerValues : HandlerReturns(t, value)]_vars

\* a Completed task whose handler returned a value, one whose handler returned
\* None and a Failed task side by side
C14_Witness ==
    /\ \E t \in Registered : tasks[t].status = "COMPLETED" /\ tasks[t].result # "None"
    /\ \E t \in Registered : tasks[t].status = "COMPLETED" /\ tasks[t].result = "None"
    /\ \E t \in Registered : tasks[t].status = "FAILED" /\ tasks[t].error # "None"

\* C15: adding a task whose id is already registered fails with a
\* DuplicateIdError and leaves the registry as it was: while tasks are being
\* added no step changes or replaces an entry the registry already holds.
C15_DuplicateRejected ==
    [][pc = "init" => \A t \in Registered : tasks'[t] = tasks[t]]_vars

\* C16: a registry in which a task lists a dependency that is not registered
\* is refused at resolution with an UnknownDependencyError: resolution is not
\* passed, and a task with such a dependency is in no wave and is never run.
C16_UnknownDependencyRejected ==
    /\ pc # "init" => AllDepsRegistered
    /\ \A t \in Registered :
          ~(tasks[t].dependencies \subseteq Registered) =>
              (WaveIndexes(t) = {} /\ tasks[t].started_at = 0)

\* the registered tasks whose status is st
WithStatus(st) == {t \in Registered : tasks[t].status = st}

\* the phases that have tasks, all of them Completed
FullyCompletedPhases ==
    {ph \in TaskPhase :
        /\ \E t \in Registered : tasks[t].phase = ph
        /\ \A t \in Registered : tasks[t].phase = ph => tasks[t].status = "COMPLETED"}

\* C17: the summary execute() returns has total_tasks equal to the number of
\* registered tasks, completed, failed and blocked equal to the numbers of tasks
\* whose final status is Completed, Failed and Blocked, and phases_completed
\* listing, once each, exactly the phases all of whose tasks are Completed.
C17_SummaryCounts ==
    pc = "done" =>
        /\ Len(summary) = 1
        /\ summary[1].total_tasks = Cardinality(Registered)
        /\ summary[1].completed = Cardinality(WithStatus("COMPLETED"))
        /\ summary[1].failed = Cardinality(WithStatus("FAILED"))
        /\ summary[1].blocked = Cardinality(WithStatus("BLOCKED"))
        /\ Range(summary[1].phases_completed) = FullyCompletedPhases
        /\ Len(summary[1].phases_completed) = Cardinality(FullyCompletedPhases)

\* a summary that counts a Completed, a Failed and a Blocked task and lists one
\* phase of two as completed
C17_Witness ==
    /\ pc = "done"
    /\ Len(summary) = 1
    /\ Len(summary[1].phases_completed) = 1
    /\ summary[1].completed = 1
    /\ summary[1].failed = 1
    /\ summary[1].blocked = 1
    /\ \E t \in Registered : tasks[t].phase \notin FullyCompletedPhases

\* C18: for an acyclic graph in which every handler returns normally, every
\* task ends Completed: the summary has completed equal to total_tasks, failed
\* and blocked equal to 0, and every phase that has tasks in phases_completed.
C18_AllComplete ==
    (pc = "done" /\ AcyclicGraph /\ failed_tasks = {}
        /\ \A t \in Registered : ~NotifiedFailed(t) /\ ~HandlerRaised(t)) =>
        /\ \A t \in Registered : tasks[t].status = "COMPLETED"
        /\ summary[1].completed = summary[1].total_tasks
        /\ summary[1].total_tasks = Cardinality(Registered)
        /\ summary[1].failed = 0
        /\ summary[1].blocked = 0
        /\ Range(summary[1].phases_completed) =
              {tasks[t].phase : t \in Registered}

\* a run without failure over MaxTasks tasks of two phases, one task per wave
C18_Witness ==
    /\ pc = "done"
    /\ AcyclicGraph
    /\ failed_tasks = {}
    /\ Cardinality(Registered) = MaxTasks
    /\ Len(execution_order) = MaxTasks
    /\ Cardinality({tasks[t].phase : t \in Registered}) = 2
    /\ \A t \in Registered : tasks[t].status = "COMPLETED"

\* the phase of the tasks of wave k
WavePhases(k) == {tasks[t].phase : t \in Wave(k)}

\* the waves of execution_order that hold tasks of phase ph, in order
PhaseWaves(ph) == SelectSeq(execution_order, LAMBDA g : \E t \in Range(g) : tasks[t].phase = ph)

RECURSIVE ConcatPhases(_)
ConcatPhases(ph) ==
    IF ph > NumPhases THEN <<>> ELSE PhaseWaves(ph) \o ConcatPhases(ph + 1)

\* C19: execution_order is the concatenation of the wave lists of the phases in
\* declared phase order, each wave holds tasks of a single phase, and no task of
\* a later phase is Running (or further) before every task of every earlier
\* phase is Completed, Failed or Blocked.
C19_PhaseOrder ==
    pc # "init" =>
        /\ \A k \in DOMAIN execution_order : Cardinality(WavePhases(k)) = 1
        /\ execution_order = ConcatPhases(1)
        /\ \A k \in DOMAIN execution_order : \A j \in DOMAIN execution_order :
              k < j => \A p \in WavePhases(k), q \in WavePhases(j) : p <= q
        /\ \A t \in Registered :
              tasks[t].started_at > 0 =>
                  \A s \in Registered :
                      tasks[s].phase < tasks[t].phase => tasks[s].status \in Terminal

\* the place of a registered id in the insertion order of the registry
KeyPos(t) == CHOOSE i \in DOMAIN task_keys : task_keys[i] = t

\* wave k lists its ids in registry insertion order
InInsertionOrder(k) ==
    \A i \in DOMAIN execution_order[k] : \A j \in DOMAIN execution_order[k] :
        i < j => KeyPos(execution_order[k][i]) < KeyPos(execution_order[k][j])

\* s was admitted (its "task.started" was sent) before t
StartedBefore(s, t) ==
    \E a \in DOMAIN history : \E b \in DOMAIN history :
        a < b /\ history[a] = <<"task.started", s>> /\ history[b] = <<"task.started", t>>

\* C20: every wave of execution_order, not only the first wave of a
\* phase, lists its ids in registry insertion order, and the tasks of a wave
\* are admitted for dispatch in that order.
C20_EveryWaveInInsertionOrder ==
    pc # "init" =>
        /\ \A k \in DOMAIN execution_order : InInsertionOrder(k)
        /\ \A s \in Registered : \A t \in Registered :
              (StartedBefore(s, t) /\ WaveIndexes(s) = WaveIndexes(t)) =>
                  KeyPos(s) < KeyPos(t)

\* C21: started_at and completed_at are each written at most once for a task
\* and never change once set, completed_at is set only after started_at, and
\* a Blocked task has neither.
C21_TimestampsSetOnce ==
    /\ [](\A t \in Registered :
            /\ tasks[t].started_at <= 1
            /\ tasks[t].completed_at <= 1
            /\ tasks[t].completed_at > 0 => tasks[t].started_at > 0
            /\ tasks[t].status = "BLOCKED" =>
                  (tasks[t].started_at = 0 /\ tasks[t].completed_at = 0))
    /\ [][pc # "init" =>
            \A t \in Registered :
                /\ tasks[t].started_at > 0 => tasks'[t].started_at = tasks[t].started_at
                /\ tasks[t].completed_at > 0 =>
                      tasks'[t].completed_at = tasks[t].completed_at]_vars

\* the run is over with a task that has both timestamps, a Failed task that
\* has both, and a Blocked task that has none
C21_Witness ==
    /\ pc = "done"
    /\ \E t \in Registered :
          tasks[t].status = "COMPLETED" /\ tasks[t].started_at = 1 /\ tasks[t].completed_at = 1
    /\ \E t \in Registered :
          tasks[t].status = "FAILED" /\ tasks[t].started_at = 1 /\ tasks[t].completed_at = 1
    /\ \E t \in Registered :
          tasks[t].status = "BLOCKED" /\ tasks[t].started_at = 0 /\ tasks[t].completed_at = 0

\* the blocking check that follows a wave has just been made
AfterBoundaryCheck == pc \in {"group", "summary", "done"} /\ group_idx >= 2

\* C22: after the blocking check that follows each wave no task is left
\* Pending if one of its dependencies is Failed or Blocked: blocking goes to a
\* fixpoint inside that one check.
C22_BlockingFixpoint ==
    AfterBoundaryCheck =>
        \A t \in Registered :
            tasks[t].status = "PENDING" =>
                \A d \in tasks[t].dependencies \cap Registered :
                    tasks[d].status \notin {"FAILED", "BLOCKED"}

\* the greatest element of a non-empty set of numbers
Max(S) == CHOOSE x \in S : \A y \in S : y <= x

\* the number of the wave of t inside its phase (0 when t is in no wave)
PhaseWaveNumber(t) ==
    IF WaveIndexes(t) = {} THEN 0
    ELSE LET k == CHOOSE i \in WaveIndexes(t) : TRUE
             before == {j \in DOMAIN execution_order :
                           j < k /\ WavePhases(j) # {tasks[t].phase}}
         IN k - Cardinality(before)

\* the dependencies of t that are registered in the phase of t
SamePhaseDeps(t) ==
    {d \in tasks[t].dependencies \cap Registered : tasks[d].phase = tasks[t].phase}

\* the ids of phase ph in registry insertion order
PhaseIds(ph) == SelectSeq(task_keys, LAMBDA t : tasks[t].phase = ph)

\* the tasks of phase ph are a chain: inside the phase each task depends on
\* exactly the task registered just before it
IsChain(ph) ==
    /\ PhaseIds(ph) # <<>>
    /\ \A i \in DOMAIN PhaseIds(ph) :
          SamePhaseDeps(PhaseIds(ph)[i]) = (IF i = 1 THEN {} ELSE {PhaseIds(ph)[i - 1]})

\* the tasks of phase ph are the diamond A->{B,C}->D
IsDiamond(ph) ==
    /\ Len(PhaseIds(ph)) = 4
    /\ SamePhaseDeps(PhaseIds(ph)[1]) = {}
    /\ SamePhaseDeps(PhaseIds(ph)[2]) = {PhaseIds(ph)[1]}
    /\ SamePhaseDeps(PhaseIds(ph)[3]) = {PhaseIds(ph)[1]}
    /\ SamePhaseDeps(PhaseIds(ph)[4]) = {PhaseIds(ph)[2], PhaseIds(ph)[3]}

\* task t has no dependency and is the only task of its phase
IsAlone(t) ==
    /\ tasks[t].dependencies = {}
    /\ \A s \in Registered \ {t} : tasks[s].phase # tasks[t].phase

\* no task of phase ph is on a cycle of dependencies inside the phase
PhaseAcyclic(ph) == \A s \in Registered : tasks[s].phase = ph => ~OnPhaseCycle(s)

\* C23: within a phase whose dependencies are acyclic the wave number of a task
\* is 1 plus the greatest wave number of its same-phase dependencies (1 without
\* any): a chain of n tasks gives n singleton waves in chain order, the diamond
\* A->{B,C}->D gives [A],[B,C],[D], and a task without dependency that is alone
\* in its phase gives one wave holding only itself. execution_order is written
\* by _calculate_execution_order only, and the dependencies and phases never
\* change: the property is stated of the state that resolution leaves.
C23_WaveNumber ==
    pc = "constructed" =>
        /\ \A t \in Registered :
              PhaseAcyclic(tasks[t].phase) =>
              PhaseWaveNumber(t) =
                  IF SamePhaseDeps(t) = {} THEN 1
                  ELSE 1 + Max({PhaseWaveNumber(d) : d \in SamePhaseDeps(t)})
        /\ \A ph \in 1..NumPhases :
              /\ IsChain(ph) =>
                    PhaseWaves(ph) = [i \in DOMAIN PhaseIds(ph) |-> <<PhaseIds(ph)[i]>>]
              /\ IsDiamond(ph) =>
                    PhaseWaves(ph) = << <<PhaseIds(ph)[1]>>,
                                        <<PhaseIds(ph)[2], PhaseIds(ph)[3]>>,
                                        <<PhaseIds(ph)[4]>> >>
        /\ \A t \in Registered :
              IsAlone(t) =>
                  /\ PhaseWaveNumber(t) = 1
                  /\ PhaseWaves(tasks[t].phase) = << <<t>> >>

\* resolution has left the three waves of a diamond in one phase and the one
\* wave of a task that is alone in another phase
C23_Witness ==
    /\ pc = "constructed"
    /\ \E ph \in 1..NumPhases : IsDiamond(ph) /\ Len(PhaseWaves(ph)) = 3
    /\ \E t \in Registered : IsAlone(t) /\ PhaseWaves(tasks[t].phase) = << <<t>> >>

\* the task events the sink received for t, in the order it received them
TaskEvents(t) ==
    LET evs == SelectSeq(history, LAMBDA e : e[2] = t)
    IN [i \in 1..Len(evs) |-> evs[i][1]]

\* C24: for a task whose handler is invoked the sink receives exactly one
\* task.started and afterwards, once the handler has ended, exactly one of
\* task.completed and task.failed, the one that matches the final status; for
\* a task that ends Blocked (or is never started) the sink receives no task
\* event.
C24_TaskEvents ==
    \A t \in Registered :
        /\ HandlerEnded(t) =>
              \/ tasks[t].status = "COMPLETED" /\ NotifiedCompleted(t)
              \/ tasks[t].status = "FAILED" /\ NotifiedFailed(t)
        /\ tasks[t].status \in {"PENDING", "BLOCKED"} => TaskEvents(t) = <<>>
        /\ tasks[t].status = "RUNNING" => TaskEvents(t) = <<"task.started">>
        /\ tasks[t].status = "COMPLETED" =>
              TaskEvents(t) = <<"task.started", "task.completed">>
        /\ tasks[t].status = "FAILED" =>
              TaskEvents(t) = <<"task.started", "task.failed">>

\* C27: in every reachable state completed_tasks is exactly the set of the
\* Completed tasks and failed_tasks exactly the set of the Failed tasks (the two
\* sets are disjoint), and every Running task is in running_tasks.
C27_SetsMatchStatus ==
    /\ completed_tasks = WithStatus("COMPLETED")
    /\ failed_tasks = WithStatus("FAILED")
    /\ completed_tasks \cap failed_tasks = {}
    /\ WithStatus("RUNNING") \subseteq running_tasks

\* the tasks that are Blocked
Blocked == WithStatus("BLOCKED")

\* C28: a task becomes Blocked only when an id of its own dependencies is in
\* failed_tasks at that moment, and in a run where no handler fails no task is
\* ever Blocked.
C28_BlockedOnlyOnFailedDependency ==
    /\ [][\A t \in Registered :
            (tasks[t].status # "BLOCKED" /\ tasks'[t].status = "BLOCKED") =>
                tasks[t].dependencies \cap failed_tasks # {}]_vars
    /\ [](failed_tasks = {} => Blocked = {})

\* a task was Blocked at the boundary that follows the failure of its dependency
\* while another task, without failed dependency, went on to complete
C28_Witness ==
    /\ pc = "done"
    /\ \E t \in Blocked : tasks[t].dependencies \cap failed_tasks # {}
    /\ \E t \in WithStatus("COMPLETED") :
          tasks[t].dependencies # {} /\ tasks[t].dependencies \cap failed_tasks = {}

\* C30: a second execute() on the same orchestrator never invokes the handler
\* of a task that is already Completed and never changes the status or the
\* result of that task.
C30_CompletedUntouched ==
    [][\A t \in Registered :
          (ExecuteCalls >= 2 /\ tasks[t].status = "COMPLETED") =>
              /\ tasks'[t].status = "COMPLETED"
              /\ tasks'[t].result = tasks[t].result
              /\ tasks'[t].started_at = tasks[t].started_at]_vars

\* the ids of the mesh that have been created
MeshRegistered == DOMAIN mesh_tasks

\* the positions of an execute_task call that is suspended at an await
InFlight == {"context", "implementation", "lock", "evolved_context"}

\* C25: in ImplementationTaskMesh, whatever the interleaving of the assign_task
\* and execute_task calls for one id, at most one assign_task call returns
\* True and at most one execute_task call passes the ASSIGNED check, so
\* execute_implementation is invoked at most once for the task.
C25_SingleDispatch ==
    \A id \in MeshRegistered :
        /\ assigned[id] <= 1
        /\ passed[id] <= 1
        /\ invoked[id] <= 1
        /\ invoked[id] <= passed[id]
        /\ passed[id] <= assigned[id]

\* the work of a task has been invoked once and a second execute_task call
\* for the same id, made while the first is suspended, has returned False
C25_Witness ==
    \E id \in MeshRegistered :
        /\ assigned[id] = 1
        /\ invoked[id] = 1
        /\ calls[id] = "implementation"
        /\ returned = [op |-> "execute_task", id |-> id, value |-> FALSE]

\* a limit of the configuration: an integer from 1 on
ConfiguredLimit == max_parallel_tasks >= 1

\* C26: in an ImplementationTaskMesh with a configured limit the size of
\* executing_tasks never exceeds max_parallel_tasks, whatever the interleaving
\* of create_task, assign_task, execute_task and cleanup, and, with any limit,
\* an assign_task call made while the limit is reached returns False and
\* changes no task state.
C26_ExecutingBounded ==
    /\ [](ConfiguredLimit => Cardinality(executing_tasks) <= max_parallel_tasks)
    /\ [][\A id \in MeshIds :
            (Cardinality(executing_tasks) >= max_parallel_tasks /\ AssignTask(id)) =>
                /\ returned'.value = FALSE
                /\ mesh_tasks' = mesh_tasks
                /\ executing_tasks' = executing_tasks]_vars

\* the limit is reached and the assign_task call for a Pending task whose
\* dependencies are completed has returned False
C26_Witness ==
    /\ ConfiguredLimit
    /\ Cardinality(executing_tasks) = max_parallel_tasks
    /\ \E id \in MeshRegistered :
          /\ returned = [op |-> "assign_task", id |-> id, value |-> FALSE]
          /\ mesh_tasks[id].state = "PENDING"
          /\ DependenciesCompleted(mesh_tasks, mesh_tasks[id])

\* C29: cleanup() is final: once it has marked an in-flight task FAILED and
\* removed it from executing_tasks, no later step of the suspended execute_task
\* call for that task sets the state to COMPLETED or raises an error when it
\* removes the id from executing_tasks.
C29_CleanupFinal ==
    [][\A id \in MeshRegistered :
          (calls[id] \in InFlight /\ id \notin executing_tasks) =>
              /\ mesh_tasks'[id].state # "COMPLETED"
              /\ calls'[id] # "raised"]_vars
====
